---- MODULE Spec2Model ----
(***************************************************************************)
(* Agentic Compare: the browser dispatcher (web/src/App.jsx,               *)
(* web/src/services/runAgent.js) and the Express provider adapter          *)
(* (simulateAgent and its routes).                                         *)
(*                                                                         *)
(* Conventions.                                                            *)
(*  - A JavaScript string that the code inspects character by character    *)
(*    (the API key) is a sequence of one-character strings.                *)
(*  - A JavaScript value that may be a number, undefined, null or NaN is   *)
(*    a record [t |-> kind, v |-> number]; an object field that is not     *)
(*    set is a key missing from the record's DOMAIN.                       *)
(*  - Money is counted in units of 1e-7 dollar, a rate of the pricing      *)
(*    table in units of 1e-4 dollar per 1000 tokens, so that               *)
(*    tokens / 1000 * rate is tokens * rate units, exactly.                *)
(*  - Latency is counted in tenths of a second (toFixed(1)).               *)
(***************************************************************************)
EXTENDS Integers, Sequences, FiniteSets, TLC

(***************************************************************************)
(* Bounds of the model.                                                    *)
(***************************************************************************)
\* how many entries of the frameworks catalogue the model keeps
NumFrameworks == 2
\* how many entries of the models catalogue the model keeps (the initial
\* selection names models[0] and models[1])
NumModels == 2
\* how many batches buildComparisons may start in one behaviour
MaxStarts == 3
\* how many of them may start while an earlier batch is in flight
MaxOverlapStarts == 2
\* how many batches may be in flight at once
MaxInFlight == 2
\* how many requests the single-request specification serves
MaxRequests == 2
\* how many records the sequences given to aggregateHighlights have at most
MaxRuns == 3

(***************************************************************************)
(* JavaScript values.                                                      *)
(***************************************************************************)
Num(n) == [t |-> "number", v |-> n]
Undefined == [t |-> "undefined", v |-> 0]
Null == [t |-> "null", v |-> 0]
NaN == [t |-> "NaN", v |-> 0]

IsNumber(x) == x.t = "number"
\* x ?? d
Nullish(x) == x.t \in {"undefined", "null"}
\* truthiness of a number-like value, as x || d reads it
Truthy(x) == x.t = "number" /\ x.v # 0
OrElse(x, d) == IF Truthy(x) THEN x ELSE d

Has(r, k) == k \in DOMAIN r
\* obj.k of an object whose field may be missing
Field(r, k) == IF Has(r, k) THEN r[k] ELSE Undefined
\* the record r with the field k set
With(r, k, val) == [x \in DOMAIN r \cup {k} |-> IF x = k THEN val ELSE r[x]]

(***************************************************************************)
(* Strings as character sequences.                                         *)
(***************************************************************************)
Lower == {"a","b","c","d","e","f","g","h","i","j","k","l","m",
          "n","o","p","q","r","s","t","u","v","w","x","y","z"}
Upper == {"A","B","C","D","E","F","G","H","I","J","K","L","M",
          "N","O","P","Q","R","S","T","U","V","W","X","Y","Z"}
Digit == {"0","1","2","3","4","5","6","7","8","9"}
\* the characters /[^a-zA-Z0-9-]/g leaves in place
KeyChars == Lower \cup Upper \cup Digit \cup {"-"}
Whitespace == {" ", "\t", "\n"}

StartsWith(s, p) == Len(s) >= Len(p) /\ SubSeq(s, 1, Len(p)) = p
Includes(s, p) == \E i \in 1..(Len(s) - Len(p) + 1) : SubSeq(s, i, i + Len(p) - 1) = p

RECURSIVE TrimStart(_)
TrimStart(s) == IF s # <<>> /\ Head(s) \in Whitespace THEN TrimStart(Tail(s)) ELSE s
RECURSIVE TrimEnd(_)
TrimEnd(s) ==
  IF s # <<>> /\ s[Len(s)] \in Whitespace THEN TrimEnd(SubSeq(s, 1, Len(s) - 1)) ELSE s
Trim(s) == TrimEnd(TrimStart(s))

IsKeyChar(c) == c \in KeyChars
\* rawKey.replace(/[^a-zA-Z0-9-]/g, '')
Sanitize(s) == SelectSeq(s, IsKeyChar)

SkPrefix == <<"s","k","-">>
PlaceholderWord == <<"p","l","a","c","e","h","o","l","d","e","r">>
SkPlaceholder == SkPrefix \o PlaceholderWord

(***************************************************************************)
(* The values process.env.OPENAI_API_KEY takes in the model; <<>> is the   *)
(* variable unset (or empty).                                              *)
(***************************************************************************)
KeyUnset == <<>>
KeyPlain == <<"s","k","-","a","1">>
KeyPadded == <<" ">> \o KeyPlain \o <<"\n">>
KeyQuoted == <<"\"">> \o KeyPlain \o <<"\"">>
KeyReadme == <<"y","o","u","r","_","k","e","y","_","h","e","r","e">>
KeyPunct == <<"!","?">>
KeyPlaceholder == SkPlaceholder
KeyPlaceUnder == SkPrefix \o <<"p","l","a","c","e","_","h","o","l","d","e","r">>
KeyHasPlaceholder == SkPrefix \o <<"x","-">> \o PlaceholderWord \o <<"-","1">>
KeySplitPlaceholder ==
  SkPrefix \o <<"m","y","_","p","l","a","c","e","_","h","o","l","d","e","r","_","1">>

EnvKeys == {KeyUnset, KeyPlain, KeyPadded, KeyQuoted, KeyReadme, KeyPunct,
            KeyPlaceholder, KeyPlaceUnder, KeyHasPlaceholder, KeySplitPlaceholder}

KeyAbsentNoPrefixTest(envKey) ==
  LET rawKey == Trim(envKey)
      apiKey == Sanitize(rawKey)
  IN  \/ apiKey = <<>>
      \/ apiKey = SkPlaceholder
      \/ Includes(rawKey, PlaceholderWord)

KeyAbsentNoPlaceholderTest(envKey) ==
  LET rawKey == Trim(envKey)
      apiKey == Sanitize(rawKey)
  IN  \/ apiKey = <<>>
      \/ ~StartsWith(apiKey, SkPrefix)
      \/ apiKey = SkPlaceholder

\* the test of simulateAgent that sends the call to the mock
KeyAbsent(envKey) ==
  LET rawKey == Trim(envKey)
      apiKey == Sanitize(rawKey)
  IN  \/ apiKey = <<>>
      \/ ~StartsWith(apiKey, SkPrefix)
      \/ apiKey = SkPlaceholder
      \/ Includes(rawKey, PlaceholderWord)

(***************************************************************************)
(* Catalogues and the pricing table.                                       *)
(***************************************************************************)
AllFrameworkIds == <<"langgraph", "autogen", "crewai", "llamaindex">>
AllModelIds == <<"gpt-41", "claude-37", "llama-33", "gemini-20">>

\* the ids of App.jsx's frameworks and models arrays, in catalogue order
frameworks == SubSeq(AllFrameworkIds, 1, NumFrameworks)
models == SubSeq(AllModelIds, 1, NumModels)

Range(s) == {s[i] : i \in DOMAIN s}

\* the frameworks that have an endpoint
PROVIDER_MAP == {"langgraph", "autogen", "crewai", "llamaindex"}

\* the framework name each route hands to simulateAgent
RouteFramework ==
  [langgraph |-> "LangGraph", autogen |-> "AutoGen",
   crewai |-> "CrewAI", llamaindex |-> "LlamaIndex"]

\* rates in 1e-4 dollar per 1000 tokens
priceTable ==
  [m \in {"gpt-41", "claude-37", "llama-33", "gemini-20"} |->
     CASE m = "gpt-41" -> 40
       [] m = "claude-37" -> 35
       [] m = "llama-33" -> 15
       [] m = "gemini-20" -> 20]

RateOfZeroForUnknown(model) ==
  IF model \in DOMAIN priceTable THEN priceTable[model] ELSE 0

\* priceTable[model] || 0.002
RateOf(model) == IF model \in DOMAIN priceTable THEN priceTable[model] ELSE 20

\* a model id the pricing table does not know
UnknownModel == "mistral-x"
RequestModels == Range(models) \cup {UnknownModel}

StarterPrompt == "Design a weekend web app that compares climate data using AI agents."
Tasks == {StarterPrompt, "Summarize AI agents"}

(***************************************************************************)
(* getMockResponse: the record it resolves to once sleep(100) is over.     *)
(***************************************************************************)
getMockResponse(framework, task) ==
  [output |-> <<"MOCK", framework, task>>,
   tokens |-> Num(250),
   cost |-> Num(25000),
   steps |-> << <<"Initialized", framework>>, <<"Processed Input">>,
                <<"Generated Response">>, <<"Finalized">> >>,
   quality |-> Num(95),
   coverage |-> Num(98),
   safety |-> Num(100),
   metrics |-> [latency |-> Num(15), tokens |-> Num(250), cost |-> Num(25000),
                quality |-> Num(95), coverage |-> Num(98), safety |-> Num(100)]]

(***************************************************************************)
(* What the upstream (api.openai.com) may answer.                          *)
(*   net     "fail": fetch rejects; "ok": a response arrives               *)
(*   status  the HTTP status                                               *)
(*   sig     the error text contains 'invalid_api_key'                     *)
(*   body    of a 2xx response: "notjson" (res.json() rejects),            *)
(*           "nochoices" (data.choices is missing), "badcontent"           *)
(*           (message.content is no JSON), "nullresult" (content is the    *)
(*           JSON null), "object" (content is a JSON object)               *)
(*   quality, coverage   the fields of the object, Undefined when left out *)
(*   usage   "missing": data.usage is undefined; "present" otherwise       *)
(*   total   data.usage.total_tokens                                       *)
(***************************************************************************)
Upstream(net, status, sig, body, quality, coverage, usage, total) ==
  [net |-> net, status |-> status, sig |-> sig, body |-> body,
   quality |-> quality, coverage |-> coverage, usage |-> usage, total |-> total]

NetFailure == Upstream("fail", 0, FALSE, "none", Undefined, Undefined, "missing", Undefined)
HttpError(status, sig) ==
  Upstream("ok", status, sig, "none", Undefined, Undefined, "missing", Undefined)
BadBody(kind) == Upstream("ok", 200, FALSE, kind, Undefined, Undefined, "missing", Undefined)
Result(q, c, usage, total) == Upstream("ok", 200, FALSE, "object", q, c, usage, total)

ErrorStatuses == {401, 403, 429, 500}
BadBodies == {"notjson", "nochoices", "badcontent", "nullresult"}
Scores == {Undefined, Num(0), Num(80), Num(150), Num(0 - 5)}
Totals == {Undefined, Num(0), Num(1234), Num(0 - 10)}

UpstreamResponses ==
  {NetFailure}
  \cup {HttpError(st, sig) : st \in ErrorStatuses, sig \in BOOLEAN}
  \cup {BadBody(k) : k \in BadBodies}
  \cup {Result(q, c, "missing", Undefined) : q \in Scores, c \in Scores}
  \cup {Result(q, c, "present", t) : q \in Scores, c \in Scores, t \in Totals}

ResOk(status) == status >= 200 /\ status <= 299

(***************************************************************************)
(* simulateAgent.  An outcome of a block of code is                        *)
(*   [kind |-> "return", value |-> record]   return record                 *)
(*   [kind |-> "mock",   value |-> <<>>]     return getMockResponse(...)   *)
(*   [kind |-> "throw",  value |-> <<>>]     an exception leaves the block *)
(***************************************************************************)
Return(rec) == [kind |-> "return", value |-> rec]
ReturnMock == [kind |-> "mock", value |-> <<>>]
Throw == [kind |-> "throw", value |-> <<>>]

\* the model the upstream is asked to run: model: 'gpt-4o'
SimulatorModel == "gpt-4o"

EstimatedCostSimulatorRate(tokens, model) ==
  IF IsNumber(tokens) THEN Num(tokens.v * RateOf(SimulatorModel)) ELSE NaN

\* (tokens / 1000) * (priceTable[model] || 0.002)
EstimatedCost(tokens, model) ==
  IF IsNumber(tokens) THEN Num(tokens.v * RateOf(model)) ELSE NaN

\* the record built from a parsed upstream result
LiveRecord(up, model) ==
  LET tokens == up.total
  IN  [output |-> <<"LIVE", "output", "logs">>,
       tokens |-> tokens,
       cost |-> EstimatedCost(tokens, model),
       steps |-> << <<"upstream step">> >>,
       quality |-> OrElse(up.quality, Num(85)),
       coverage |-> OrElse(up.coverage, Num(90)),
       safety |-> Num(95)]

\* if (!res.ok): the statuses and texts that fall back to the mock
FallbackSignature(up) == up.status = 401 \/ up.status = 429 \/ up.sig

\* the record the routes answer with when their helper throws
UnavailableRecord ==
  [output |-> <<"unavailable">>, tokens |-> Num(0), cost |-> Num(0),
   quality |-> Num(0), coverage |-> Num(0), safety |-> Num(0), steps |-> <<>>]

TryBodyErrorStatusUnavailable(up, model) ==
  IF up.net = "fail" THEN Throw
  ELSE IF ~ResOk(up.status) THEN Return(UnavailableRecord)
  ELSE IF up.body # "object" THEN Throw
  ELSE IF up.usage = "missing" THEN Throw
  ELSE Return(LiveRecord(up, model))

TryBodyLenientParse(up, model) ==
  IF up.net = "fail" THEN Throw
  ELSE IF ~ResOk(up.status)
       THEN IF FallbackSignature(up) THEN ReturnMock ELSE Throw
  ELSE Return(LiveRecord(up, model))

\* the body of the try block, from the upstream's answer on
TryBody(up, model) ==
  IF up.net = "fail" THEN Throw
  ELSE IF ~ResOk(up.status)
       THEN IF FallbackSignature(up) THEN ReturnMock ELSE Throw
  ELSE IF up.body # "object" THEN Throw
  ELSE IF up.usage = "missing" THEN Throw
  ELSE Return(LiveRecord(up, model))

\* catch (err) { ... return getMockResponse(framework, task, styles) }
CatchRethrows(outcome) == outcome

Catch(outcome) == IF outcome.kind = "throw" THEN ReturnMock ELSE outcome

\* simulateAgent as one function of its inputs and of the upstream's answer
\* (the answer is not read when the key is absent)
simulateAgent(envKey, task, model, framework, up) ==
  IF KeyAbsent(envKey)
  THEN Return(getMockResponse(framework, task))
  ELSE LET o == Catch(TryBody(up, model))
       IN  IF o.kind = "mock" THEN Return(getMockResponse(framework, task)) ELSE o

(***************************************************************************)
(* res.json(result) and the browser's res.json(): a field whose value is   *)
(* undefined is left out, NaN becomes null.                                *)
(***************************************************************************)
NumericKeys == {"tokens", "cost", "quality", "coverage", "safety"}

JsonBody(rec) ==
  LET kept == {k \in DOMAIN rec : ~(k \in NumericKeys /\ rec[k].t = "undefined")}
  IN  [k \in kept |-> IF k \in NumericKeys /\ rec[k].t = "NaN" THEN Null ELSE rec[k]]

\* data.k ?? 0
OrZero(data, k) == IF Nullish(Field(data, k)) THEN Num(0) ELSE data[k]

(***************************************************************************)
(* runAgent.  The transport between the browser and the server is          *)
(*   [net |-> "fail"]                 fetch rejects                        *)
(*   [net |-> "ok", status |-> s]     a response of status s; with 200 it  *)
(*                                    carries the body the route sent      *)
(* A settled promise is [status |-> "fulfilled", value |-> v] or           *)
(* [status |-> "rejected", reason |-> [message |-> m]].                    *)
(***************************************************************************)
Pending == [status |-> "pending"]
Fulfilled(v) == [status |-> "fulfilled", value |-> v]
Rejected(msg) == [status |-> "rejected", reason |-> [message |-> msg]]

TransportDown == [net |-> "fail", status |-> 0]
TransportStatus(s) == [net |-> "ok", status |-> s]
Transports == {TransportDown, TransportStatus(200), TransportStatus(502)}
FailingTransports == {tr \in Transports : tr.net = "fail" \/ ~ResOk(tr.status)}

Latencies == {3, 12}

runAgent(frameworkId, transport, data, latency) ==
  IF frameworkId \notin PROVIDER_MAP THEN Rejected(<<"No endpoint for ", frameworkId>>)
  ELSE IF transport.net = "fail" THEN Rejected(<<"Failed to fetch">>)
  ELSE IF ~ResOk(transport.status) THEN Rejected(<<"Provider error: ", transport.status>>)
  ELSE Fulfilled(
         LET base == [steps |-> IF Has(data, "steps") THEN data.steps ELSE <<>>,
                      metrics |-> [latency |-> Num(latency),
                                   tokens |-> OrZero(data, "tokens"),
                                   cost |-> OrZero(data, "cost"),
                                   quality |-> OrZero(data, "quality"),
                                   coverage |-> OrZero(data, "coverage"),
                                   safety |-> OrZero(data, "safety")]]
         IN  IF Has(data, "output") THEN With(base, "output", data.output) ELSE base)

(***************************************************************************)
(* aggregateHighlights.  The object it returns is a record; {} is the      *)
(* record without fields.                                                  *)
(***************************************************************************)
\* runs.filter((r) => !r.error)
ValidRunsUnfiltered(runs) == runs

ValidRuns(runs) == SelectSeq(runs, LAMBDA r : ~Has(r, "error") \/ r.error = <<>>)

\* run.metrics.k < best.metrics.k ? run : best   (> for quality)
BetterOrEqual(run, best, k, smallest) ==
  IF smallest THEN run.metrics[k].v <= best.metrics[k].v
  ELSE run.metrics[k].v >= best.metrics[k].v

Better(run, best, k, smallest) ==
  IF smallest THEN run.metrics[k].v < best.metrics[k].v
  ELSE run.metrics[k].v > best.metrics[k].v

\* validRuns.reduce((best, run) => (... ? run : best), best)
RECURSIVE ReduceBest(_, _, _, _)
ReduceBest(validRuns, best, k, smallest) ==
  IF validRuns = <<>> THEN best
  ELSE ReduceBest(Tail(validRuns),
                  IF Better(Head(validRuns), best, k, smallest) THEN Head(validRuns) ELSE best,
                  k, smallest)

\* validRuns.reduce((sum, run) => sum + run.metrics.tokens, 0)
RECURSIVE SumTokens(_)
SumTokens(validRuns) ==
  IF validRuns = <<>> THEN 0
  ELSE Head(validRuns).metrics.tokens.v + SumTokens(Tail(validRuns))

\* Math.round(sum / length): the integer nearest to the quotient, a half
\* going up; 0 / 0 is NaN
MathTrunc(sum, length) == IF length = 0 THEN NaN ELSE Num(sum \div length)

MathRound(sum, length) ==
  IF length = 0 THEN NaN ELSE Num((2 * sum + length) \div (2 * length))

\* the object built from validRuns; reduce over an empty array returns its
\* initial value validRuns[0], which is undefined
Highlights(validRuns) ==
  LET first == IF validRuns = <<>> THEN Undefined ELSE validRuns[1]
      reduce(k, smallest) ==
        IF validRuns = <<>> THEN first ELSE ReduceBest(validRuns, first, k, smallest)
  IN  [fastest |-> reduce("latency", TRUE),
       cheapest |-> reduce("cost", TRUE),
       highestQuality |-> reduce("quality", FALSE),
       averageTokens |-> MathRound(SumTokens(validRuns), Len(validRuns))]

aggregateHighlightsNoValidTest(runs) ==
  IF runs = <<>> THEN <<>> ELSE Highlights(ValidRuns(runs))

aggregateHighlights(runs) ==
  IF runs = <<>> THEN <<>>
  ELSE IF ValidRuns(runs) = <<>> THEN <<>>
  ELSE Highlights(ValidRuns(runs))

\* the array runs as a call of aggregateHighlights leaves it: filter and
\* reduce build new values, and no statement of the function assigns to
\* runs or to a record of it
RunsAfterAggregateReversed(runs) == [i \in DOMAIN runs |-> runs[Len(runs) + 1 - i]]

RunsAfterAggregate(runs) == runs

(***************************************************************************)
(* State.                                                                  *)
(***************************************************************************)
VARIABLES
  envKey,              \* process.env.OPENAI_API_KEY of the server
  \* App.jsx
  mounted,             \* the effect has run for the first render
  task,
  selectedFrameworks,
  selectedModels,
  runs,
  batches,             \* the buildComparisons calls that have not reached setRuns
  starts,              \* how many buildComparisons calls were made
  highlights,          \* useMemo(() => aggregateHighlights(runs), [runs])
  \* one request followed from runAgent through the route and back
  pc,                  \* where the request is
  args,                \* [task, frameworkId, modelId] of the request
  upstreamCalls,       \* upstream fetches issued by this simulateAgent call
  upstreamRes,         \* what the upstream answered (<<>> before it does)
  reply,               \* the record simulateAgent returned (<<>> before)
  settled,             \* the promise runAgent returned
  requests             \* how many requests were made

dispatchVars ==
  <<mounted, task, selectedFrameworks, selectedModels, runs, batches, starts, highlights>>
requestVars == <<pc, args, upstreamCalls, upstreamRes, reply, settled, requests>>
vars == <<envKey, dispatchVars, requestVars>>

DispatchInit ==
  /\ mounted = FALSE
  /\ task = StarterPrompt
  /\ selectedFrameworks = frameworks
  /\ selectedModels = <<models[1], models[2]>>
  /\ runs = <<>>
  /\ batches = <<>>
  /\ starts = 0
  /\ highlights = aggregateHighlights(<<>>)

RequestInit ==
  /\ pc = "idle"
  /\ args = [task |-> StarterPrompt, frameworkId |-> frameworks[1], modelId |-> models[1]]
  /\ upstreamCalls = 0
  /\ upstreamRes = <<>>
  /\ reply = <<>>
  /\ settled = Pending
  /\ requests = 0

(***************************************************************************)
(* One request, step by step.                                              *)
(***************************************************************************)
\* runAgent({ task, frameworkId, modelId }) up to its fetch
CallRunAgent(t, fw, m) ==
  /\ pc \in {"idle", "settled"}
  /\ requests < MaxRequests
  /\ requests' = requests + 1
  /\ args' = [task |-> t, frameworkId |-> fw, modelId |-> m]
  /\ upstreamCalls' = 0
  /\ upstreamRes' = <<>>
  /\ reply' = <<>>
  /\ settled' = Pending
  /\ pc' = "sent"
  /\ UNCHANGED <<envKey, dispatchVars>>

\* the request does not reach the route, or the answer is not a 2xx
TransportFails(tr) ==
  /\ pc = "sent"
  /\ tr \in FailingTransports
  /\ settled' = runAgent(args.frameworkId, tr, <<>>, 0)
  /\ pc' = "settled"
  /\ UNCHANGED <<envKey, dispatchVars, args, upstreamCalls, upstreamRes, reply, requests>>

\* the route calls simulateAgent, which tests the key and either awaits the
\* mock or issues the upstream fetch
RouteCallsSimulateAgent ==
  /\ pc = "sent"
  /\ IF KeyAbsent(envKey)
     THEN /\ pc' = "mockSleep"
          /\ UNCHANGED upstreamCalls
     ELSE /\ pc' = "awaitUpstream"
          /\ upstreamCalls' = upstreamCalls + 1
  /\ UNCHANGED <<envKey, dispatchVars, args, upstreamRes, reply, settled, requests>>

\* the upstream fetch settles and the try block runs to its end
UpstreamAnswers(up) ==
  /\ pc = "awaitUpstream"
  /\ upstreamRes' = up
  /\ LET o == Catch(TryBody(up, args.modelId))
     IN  CASE o.kind = "return" -> pc' = "replied" /\ reply' = o.value
           [] o.kind = "mock" -> pc' = "mockSleep" /\ UNCHANGED reply
           [] o.kind = "throw" -> pc' = "raised" /\ UNCHANGED reply
  /\ UNCHANGED <<envKey, dispatchVars, args, upstreamCalls, settled, requests>>

\* sleep(100) is over: getMockResponse resolves and simulateAgent returns it
MockResolves ==
  /\ pc = "mockSleep"
  /\ reply' = getMockResponse(RouteFramework[args.frameworkId], args.task)
  /\ pc' = "replied"
  /\ UNCHANGED <<envKey, dispatchVars, args, upstreamCalls, upstreamRes, settled, requests>>

\* res.json(result) reaches the browser and runAgent returns
ReplyArrives(latency) ==
  /\ pc = "replied"
  /\ settled' = runAgent(args.frameworkId, TransportStatus(200), JsonBody(reply), latency)
  /\ pc' = "settled"
  /\ UNCHANGED <<envKey, dispatchVars, args, upstreamCalls, upstreamRes, reply, requests>>

AdapterInit == envKey \in EnvKeys /\ DispatchInit /\ RequestInit

AdapterNext ==
  \/ \E t \in Tasks, fw \in Range(frameworks), m \in RequestModels : CallRunAgent(t, fw, m)
  \/ \E tr \in Transports : TransportFails(tr)
  \/ RouteCallsSimulateAgent
  \/ \E up \in UpstreamResponses : UpstreamAnswers(up)
  \/ MockResolves
  \/ \E latency \in Latencies : ReplyArrives(latency)

AdapterSpec == AdapterInit /\ [][AdapterNext]_vars

\* What the server and the browser do on their own: the route handler runs
\* once the request has arrived, the timer of sleep(100) fires, and the
\* response that was sent is read.  Nothing obliges the upstream to answer,
\* the transport to fail or the user to make a request.
AdapterFairness ==
  /\ WF_vars(RouteCallsSimulateAgent)
  /\ WF_vars(MockResolves)
  /\ WF_vars(\E latency \in Latencies : ReplyArrives(latency))

AdapterLiveSpec == AdapterSpec /\ AdapterFairness

(***************************************************************************)
(* buildComparisons.                                                       *)
(***************************************************************************)
\* catalogue.filter((x) => selection.includes(x.id))
PickedInSelectionOrder(catalogue, selection) ==
  SelectSeq(selection, LAMBDA id : id \in Range(catalogue))

Picked(catalogue, selection) ==
  SelectSeq(catalogue, LAMBDA id : id \in Range(selection))

\* pickedFrameworks.flatMap((fw) => pickedModels.map((m) => ({ fw, m })))
RECURSIVE FlatMapCombos(_, _)
FlatMapCombos(pickedFrameworks, pickedModels) ==
  IF pickedFrameworks = <<>> THEN <<>>
  ELSE [j \in 1..Len(pickedModels) |-> [fw |-> Head(pickedFrameworks), m |-> pickedModels[j]]]
       \o FlatMapCombos(Tail(pickedFrameworks), pickedModels)

\* setRuns((prev) => prev.map((r) => ({ ...r, loading: true })))
MarkLoading(prev) == [i \in DOMAIN prev |-> With(prev[i], "loading", TRUE)]

\* the state of a buildComparisons call suspended at its await
NewBatch(nextTask, nextFrameworks, nextModels) ==
  LET combos == FlatMapCombos(Picked(frameworks, nextFrameworks), Picked(models, nextModels))
  IN  [task |-> nextTask,
       frameworkIds |-> nextFrameworks,
       modelIds |-> nextModels,
       combos |-> combos,
       promises |-> [i \in DOMAIN combos |-> Pending],
       results |-> [i \in DOMAIN combos |-> Pending]]

\* .then((res) => ({ fw, m, ...res })) on the promise of runAgent
ThenTag(combo, p) ==
  IF p.status = "fulfilled"
  THEN Fulfilled([k \in DOMAIN p.value \cup {"fw", "m"} |->
                    IF k \in DOMAIN p.value THEN p.value[k]
                    ELSE IF k = "fw" THEN combo.fw ELSE combo.m])
  ELSE p

\* Promise.allSettled: the slot a settled promise's result is written to
FirstPending(results) == CHOOSE i \in DOMAIN results :
  /\ results[i].status = "pending"
  /\ \A j \in 1..(i - 1) : results[j].status # "pending"

StoreInArrivalOrder(results, index, settledPromise) ==
  [results EXCEPT ![FirstPending(results)] = settledPromise]

StoreSettled(results, index, settledPromise) ==
  [results EXCEPT ![index] = settledPromise]

\* Promise.allSettled resolves
AnySettled(results) ==
  results = <<>> \/ \E i \in DOMAIN results : results[i].status # "pending"

AllSettled(results) == \A i \in DOMAIN results : results[i].status # "pending"

ReasonMessageNoFallback(res) ==
  IF Has(res, "reason") /\ Has(res.reason, "message") THEN res.reason.message ELSE <<>>

\* res.reason?.message || 'Failed'
ReasonMessage(res) ==
  IF Has(res, "reason") /\ Has(res.reason, "message") /\ res.reason.message # <<>>
  THEN res.reason.message
  ELSE <<"Failed">>

ErrorRunFixedMessage(combo, res) ==
  [id |-> <<combo.fw, "-", combo.m>>, framework |-> combo.fw, model |-> combo.m,
   error |-> <<"Failed">>,
   metrics |-> [latency |-> Num(0), tokens |-> Num(0), cost |-> Num(0),
                quality |-> Num(0), coverage |-> Num(0)],
   steps |-> <<>>,
   output |-> <<"Error">>]

\* the record of a combination whose promise was rejected
ErrorRun(combo, res) ==
  [id |-> <<combo.fw, "-", combo.m>>, framework |-> combo.fw, model |-> combo.m,
   error |-> ReasonMessage(res),
   metrics |-> [latency |-> Num(0), tokens |-> Num(0), cost |-> Num(0),
                quality |-> Num(0), coverage |-> Num(0)],
   steps |-> <<>>,
   output |-> <<"Error">>]

\* { id, framework: fw, model: m, ...res.value }
ValueRun(combo, res) ==
  LET head == [id |-> <<combo.fw, "-", combo.m>>, framework |-> combo.fw, model |-> combo.m]
  IN  [k \in DOMAIN head \cup DOMAIN res.value |->
         IF k \in DOMAIN res.value THEN res.value[k] ELSE head[k]]

\* results.map((res, i) => ...)
ResultsToRuns(combos, results) ==
  [i \in DOMAIN results |->
     IF results[i].status = "fulfilled"
     THEN ValueRun(combos[i], results[i])
     ELSE ErrorRun(combos[i], results[i])]

(***************************************************************************)
(* App.jsx, step by step.                                                  *)
(***************************************************************************)
\* what the upstream answers to the calls of a batch
BatchUpstreams == {HttpError(500, FALSE), Result(Num(80), Undefined, "present", Num(1234))}
BatchLatencies == {12}
BatchKeys == {KeyUnset}
BatchTransports == {TransportStatus(200), TransportStatus(502)}

\* the ways the promise of runAgent for one combination may settle
CallOutcomes(batchTask, combo) ==
  {runAgent(combo.fw, tr, <<>>, 0) : tr \in BatchTransports \cap FailingTransports}
  \cup
  {runAgent(combo.fw, TransportStatus(200), JsonBody(sim.value), latency) :
     sim \in {s \in {simulateAgent(envKey, batchTask, combo.m, RouteFramework[combo.fw], up) :
                       up \in BatchUpstreams} : s.kind = "return"},
     latency \in BatchLatencies}

\* buildComparisons(...) up to its await
StartBatch(nextTask, nextFrameworks, nextModels) ==
  /\ starts < MaxStarts
  /\ Len(batches) < MaxInFlight
  /\ batches # <<>> => starts < MaxOverlapStarts
  /\ starts' = starts + 1
  /\ runs' = RunsAfterAggregate(MarkLoading(runs))
  /\ highlights' = aggregateHighlights(runs')
  /\ batches' = Append(batches, NewBatch(nextTask, nextFrameworks, nextModels))

\* useEffect, first render
Mount ==
  /\ ~mounted
  /\ mounted' = TRUE
  /\ StartBatch(task, selectedFrameworks, selectedModels)
  /\ UNCHANGED <<envKey, task, selectedFrameworks, selectedModels, requestVars>>

\* setTask(value), then the effect
SetTask(value) ==
  /\ mounted
  /\ value # task
  /\ task' = value
  /\ StartBatch(value, selectedFrameworks, selectedModels)
  /\ UNCHANGED <<envKey, mounted, selectedFrameworks, selectedModels, requestVars>>

ToggleAlwaysAppends(prev, id) == Append(prev, id)

\* prev.includes(id) ? prev.filter((x) => x !== id) : [...prev, id]
Toggle(prev, id) ==
  IF id \in Range(prev) THEN SelectSeq(prev, LAMBDA x : x # id) ELSE Append(prev, id)

toggleFramework(id) ==
  /\ mounted
  /\ selectedFrameworks' = Toggle(selectedFrameworks, id)
  /\ StartBatch(task, selectedFrameworks', selectedModels)
  /\ UNCHANGED <<envKey, mounted, task, selectedModels, requestVars>>

toggleModel(id) ==
  /\ mounted
  /\ selectedModels' = Toggle(selectedModels, id)
  /\ StartBatch(task, selectedFrameworks, selectedModels')
  /\ UNCHANGED <<envKey, mounted, task, selectedFrameworks, requestVars>>

readyToCompare == Len(selectedFrameworks) > 0 /\ Len(selectedModels) > 0 /\ task # ""

\* the Run button
ClickRun ==
  /\ mounted
  /\ readyToCompare
  /\ StartBatch(task, selectedFrameworks, selectedModels)
  /\ UNCHANGED <<envKey, mounted, task, selectedFrameworks, selectedModels, requestVars>>

\* combos.map(...) has called runAgent for every combination before
\* Promise.allSettled waits: each promise settles when its own call ends,
\* whatever the state of the others
CanSettleInTurn(promises, i) ==
  /\ promises[i].status = "pending"
  /\ \A j \in 1..(i - 1) : promises[j].status # "pending"

CanSettle(promises, i) == promises[i].status = "pending"

\* the promise of combination i of batch b settles
Settle(b, i) ==
  /\ b \in DOMAIN batches
  /\ i \in DOMAIN batches[b].promises
  /\ CanSettle(batches[b].promises, i)
  /\ \E outcome \in CallOutcomes(batches[b].task, batches[b].combos[i]) :
       LET p == ThenTag(batches[b].combos[i], outcome)
       IN  batches' = [batches EXCEPT
                         ![b].promises[i] = p,
                         ![b].results = StoreSettled(batches[b].results, i, p)]
  /\ UNCHANGED <<envKey, mounted, task, selectedFrameworks, selectedModels, runs, starts,
                 highlights, requestVars>>

\* Promise.allSettled has resolved: buildComparisons resumes and calls setRuns
Publish(b) ==
  /\ b \in DOMAIN batches
  /\ AllSettled(batches[b].results)
  /\ runs' = RunsAfterAggregate(ResultsToRuns(batches[b].combos, batches[b].results))
  /\ highlights' = aggregateHighlights(runs')
  /\ batches' = [k \in 1..(Len(batches) - 1) |-> IF k < b THEN batches[k] ELSE batches[k + 1]]
  /\ UNCHANGED <<envKey, mounted, task, selectedFrameworks, selectedModels, starts,
                 requestVars>>

Init == envKey \in BatchKeys /\ DispatchInit /\ RequestInit

Next ==
  \/ Mount
  \/ \E value \in Tasks : SetTask(value)
  \/ \E id \in Range(frameworks) : toggleFramework(id)
  \/ \E id \in Range(models) : toggleModel(id)
  \/ ClickRun
  \/ \E b \in 1..MaxInFlight, i \in 1..(Len(AllFrameworkIds) * Len(AllModelIds)) : Settle(b, i)
  \/ \E b \in 1..MaxInFlight : Publish(b)

Spec == Init /\ [][Next]_vars

(***************************************************************************)
(* aggregateHighlights on its own: setRuns with any sequence of records    *)
(* that buildComparisons can build, then the render that recomputes the    *)
(* memo.                                                                   *)
(***************************************************************************)
\* the combinations the records are built for
AggCombos == FlatMapCombos(frameworks, models)

\* how the call of a combination may end: rejected, or resolved with what
\* simulateAgent returned for an upstream answer, after a latency
AggCalls ==
  {[tr |-> TransportStatus(502), up |-> NetFailure, latency |-> 0],
   [tr |-> TransportStatus(200), up |-> HttpError(401, FALSE), latency |-> 12],
   [tr |-> TransportStatus(200), up |-> Result(Num(80), Undefined, "present", Num(1235)), latency |-> 3],
   [tr |-> TransportStatus(200), up |-> Result(Num(80), Undefined, "present", Num(1235)), latency |-> 12],
   [tr |-> TransportStatus(200), up |-> Result(Undefined, Num(80), "present", Num(0)), latency |-> 3]}

\* the settled promise of combination combo for the call c
AggSettled(combo, c) ==
  ThenTag(combo,
          runAgent(combo.fw, c.tr,
                   JsonBody(simulateAgent(KeyPlain, StarterPrompt, combo.m,
                                          RouteFramework[combo.fw], c.up).value),
                   c.latency))

\* results.map(...) of buildComparisons for the first Len(calls) combinations
AggRuns(calls) ==
  ResultsToRuns(SubSeq(AggCombos, 1, Len(calls)),
                [i \in DOMAIN calls |-> AggSettled(AggCombos[i], calls[i])])

\* setRuns(results.map(...)) for calls that ended as in calls, and the render
\* that follows
SetRuns(calls) ==
  /\ runs' = RunsAfterAggregate(AggRuns(calls))
  /\ highlights' = aggregateHighlights(runs')
  /\ UNCHANGED <<envKey, mounted, task, selectedFrameworks, selectedModels, batches, starts,
                 requestVars>>

AggInit == envKey = KeyPlain /\ DispatchInit /\ RequestInit

AggNext == \E n \in 0..MaxRuns : \E calls \in [1..n -> AggCalls] : SetRuns(calls)

AggSpec == AggInit /\ [][AggNext]_vars

(***************************************************************************)
(* Properties of buildComparisons.                                         *)
(***************************************************************************)
\* position of id in a catalogue
IndexIn(catalogue, id) == CHOOSE i \in DOMAIN catalogue : catalogue[i] = id

\* the combination the input selections put at index i, framework-major and
\* model-minor, in the order of the selections themselves
SelectionCombo(frameworkIds, modelIds, i) ==
  [fw |-> frameworkIds[((i - 1) \div Len(modelIds)) + 1],
   m |-> modelIds[((i - 1) % Len(modelIds)) + 1]]

\* (fw1, m1) comes before (fw2, m2), frameworks first, each in catalogue order
CatalogueBefore(fw1, m1, fw2, m2) ==
  \/ IndexIn(frameworks, fw1) < IndexIn(frameworks, fw2)
  \/ fw1 = fw2 /\ IndexIn(models, m1) < IndexIn(models, m2)

\* C1 as claimed: the records a batch stores number |frameworkIds| x |modelIds|
\* and follow the framework-major, model-minor product of the input
\* selections, in the order the selections list their ids.
C1_SelectionOrder ==
  [][\A b \in DOMAIN batches :
       Publish(b) =>
         LET F == batches[b].frameworkIds
             M == batches[b].modelIds
         IN  /\ Len(runs') = Len(F) * Len(M)
             /\ \A i \in DOMAIN runs' :
                  /\ runs'[i].framework = SelectionCombo(F, M, i).fw
                  /\ runs'[i].model = SelectionCombo(F, M, i).m]_vars

\* C1 amended: the records a batch stores number |frameworkIds| x |modelIds|,
\* name exactly the pairs of the product of the two selections, and are listed
\* framework-major, model-minor with frameworks and models each in the order of
\* the catalogue (the frameworks and models arrays), whatever the order of the
\* ids in the selections.
C1_CatalogueOrder ==
  [][\A b \in DOMAIN batches :
       Publish(b) =>
         LET F == batches[b].frameworkIds
             M == batches[b].modelIds
         IN  /\ Len(runs') = Len(F) * Len(M)
             /\ {<<runs'[i].framework, runs'[i].model>> : i \in DOMAIN runs'}
                  = Range(F) \X Range(M)
             /\ \A i, j \in DOMAIN runs' :
                  i < j => CatalogueBefore(runs'[i].framework, runs'[i].model,
                                           runs'[j].framework, runs'[j].model)]_vars

\* C1 witness: the records of a 2 x 2 batch are on display, stored by a batch
\* whose framework selection lists the ids in another order than the catalogue.
C1_Witness ==
  /\ starts = MaxStarts
  /\ batches = <<>>
  /\ Len(selectedFrameworks) >= 2
  /\ selectedFrameworks # Picked(frameworks, selectedFrameworks)
  /\ Len(runs) = Len(selectedFrameworks) * Len(selectedModels)
  /\ Len(selectedModels) >= 2
  /\ \A i \in DOMAIN runs : ~Has(runs[i], "loading")

\* the record setRuns must hold for a combination, read off the promise of
\* that combination
IsRunOf(run, combo, promise) ==
  /\ run.id = <<combo.fw, "-", combo.m>>
  /\ run.framework = combo.fw
  /\ run.model = combo.m
  /\ IF promise.status = "fulfilled"
     THEN /\ ~Has(run, "error")
          /\ run.fw = combo.fw
          /\ run.m = combo.m
          /\ run.output = promise.value.output
          /\ run.steps = promise.value.steps
          /\ run.metrics = promise.value.metrics
     ELSE /\ promise.status = "rejected"
          /\ Has(run, "error")
          /\ run.error = promise.reason.message

\* C2: whatever the order in which the calls of a batch settle, the record
\* stored at index i is the outcome of the call made for combination i.
C2_IndexAligned ==
  [][\A b \in DOMAIN batches :
       Publish(b) =>
         /\ DOMAIN runs' = DOMAIN batches[b].combos
         /\ \A i \in DOMAIN runs' :
              IsRunOf(runs'[i], batches[b].combos[i], batches[b].promises[i])]_vars

\* C2 witness: a later call of a batch has settled, and its result is stored,
\* while an earlier call of the same batch is still pending; the two calls end
\* differently once both have settled.
C2_Witness ==
  \E b \in DOMAIN batches :
    \E i, j \in DOMAIN batches[b].promises :
      /\ i < j
      /\ batches[b].promises[i].status = "pending"
      /\ batches[b].results[j].status = "rejected"
      /\ \E k \in DOMAIN batches[b].promises :
           k > j /\ batches[b].results[k].status = "fulfilled"

\* C3: a rejected call leaves, at its own index, an error record with zero
\* tokens, cost, quality and coverage, no steps and the rejection's message;
\* the other indices hold the records of their own combinations; there is one
\* record per combination.
C3_RejectionIsolated ==
  [][\A b \in DOMAIN batches :
       Publish(b) =>
         /\ Len(runs') = Len(batches[b].combos)
         /\ \A i \in DOMAIN runs' :
              LET p == batches[b].promises[i]
                  combo == batches[b].combos[i]
              IN  /\ runs'[i].framework = combo.fw /\ runs'[i].model = combo.m
                  /\ p.status = "rejected" =>
                       /\ runs'[i].metrics.tokens = Num(0)
                       /\ runs'[i].metrics.cost = Num(0)
                       /\ runs'[i].metrics.quality = Num(0)
                       /\ runs'[i].metrics.coverage = Num(0)
                       /\ runs'[i].steps = <<>>
                       /\ Has(runs'[i], "error")
                       /\ runs'[i].error = p.reason.message
                  /\ p.status = "fulfilled" =>
                       /\ ~Has(runs'[i], "error")
                       /\ runs'[i].fw = combo.fw /\ runs'[i].m = combo.m
                       /\ runs'[i].metrics = p.value.metrics]_vars

\* C3 witness: the displayed records of a batch hold an error record next to
\* the record of a call that succeeded.
C3_Witness ==
  /\ Len(runs) >= 2
  /\ \E i, j \in DOMAIN runs :
       /\ Has(runs[i], "error") /\ runs[i].error = <<"Provider error: ", 502>>
       /\ ~Has(runs[j], "error") /\ runs[j].metrics.tokens = Num(250)
  /\ \A i \in DOMAIN runs : ~Has(runs[i], "loading")

\* C4: runs changes only by marking the records on display as loading, or by
\* taking, in one step, the records of all the combinations of one batch whose
\* calls have all settled; so the display never mixes records of a batch with
\* records that were there before.
C4_AtomicPublish ==
  [][runs' # runs =>
       \/ runs' = MarkLoading(runs)
       \/ \E b \in DOMAIN batches :
            /\ \A i \in DOMAIN batches[b].promises :
                 batches[b].promises[i].status # "pending"
            /\ DOMAIN runs' = DOMAIN batches[b].combos
            /\ \A i \in DOMAIN runs' :
                 /\ ~Has(runs'[i], "loading")
                 /\ IsRunOf(runs'[i], batches[b].combos[i], batches[b].promises[i])]_vars

\* C4 witness: the whole result of a batch is on display while the calls of
\* another batch are partly settled.
C4_Witness ==
  /\ Len(runs) = Len(frameworks) * 2
  /\ \A i \in DOMAIN runs : ~Has(runs[i], "loading")
  /\ \E b \in DOMAIN batches :
       /\ \E i \in DOMAIN batches[b].results : batches[b].results[i].status = "pending"
       /\ \E i \in DOMAIN batches[b].results : batches[b].results[i].status # "pending"

(***************************************************************************)
(* Properties of simulateAgent and of a request that goes through it.      *)
(***************************************************************************)
\* simulateAgent has returned a record for the current request
HasReply == DOMAIN reply # {}
\* the upstream has answered the current request
HasAnswer == DOMAIN upstreamRes # {}
ResultKeys == {"output", "tokens", "cost", "steps", "quality", "coverage", "safety"}

\* the fixed metrics of the mock path
IsMockPath(rec) ==
  /\ rec.tokens = Num(250)
  /\ rec.cost = Num(25000)
  /\ rec.quality = Num(95)
  /\ rec.coverage = Num(98)
  /\ rec.safety = Num(100)
  /\ ~Has(rec, "error")

\* the same, read in the value runAgent resolves to
IsMockPathValue(v) ==
  /\ v.metrics.tokens = Num(250)
  /\ v.metrics.cost = Num(25000)
  /\ v.metrics.quality = Num(95)
  /\ v.metrics.coverage = Num(98)
  /\ v.metrics.safety = Num(100)
  /\ ~Has(v, "error")

\* the keys of the model that are an absent credential: unset; empty once
\* stripped; without the sk- prefix; sk-placeholder once stripped (twice);
\* containing the word placeholder
AbsentKeys == {KeyUnset, KeyPunct, KeyReadme, KeyPlaceholder, KeyPlaceUnder, KeyHasPlaceholder}

\* C5: simulateAgent never raises; whatever the key, the request and the
\* upstream's answer, a call that ends has returned a record with every field
\* of a Result Record, which the route sends and runAgent resolves to.
C5_NeverRaises ==
  /\ pc \in {"idle", "sent", "mockSleep", "awaitUpstream", "replied", "settled"}
  /\ HasAnswer => pc \in {"mockSleep", "replied", "settled"}
  /\ pc = "replied" => HasReply
  /\ HasReply =>
       /\ pc \in {"replied", "settled"}
       /\ ResultKeys \subseteq DOMAIN reply
       /\ pc = "settled" => settled.status = "fulfilled"

\* C5 witness: the upstream could not be reached and simulateAgent has
\* returned a record all the same.
C5_Witness ==
  /\ pc = "replied"
  /\ upstreamRes = NetFailure
  /\ ResultKeys \subseteq DOMAIN reply

\* C6: with an absent or placeholder credential the record is the mock
\* record (tokens 250, cost 0.0025, quality 95, coverage 98, safety 100, no
\* error), for every task and model, in the adapter's answer and in what
\* runAgent resolves to.
C6_AbsentKeyMock ==
  envKey \in AbsentKeys =>
    /\ HasReply => IsMockPath(reply)
    /\ pc = "settled" /\ HasReply =>
         /\ settled.status = "fulfilled"
         /\ IsMockPathValue(settled.value)

\* C6 witness: task "Summarize AI agents", langgraph, gpt-41, no key: the
\* request has resolved.
C6_Witness ==
  /\ envKey = KeyUnset
  /\ args = [task |-> "Summarize AI agents", frameworkId |-> "langgraph", modelId |-> "gpt-41"]
  /\ pc = "settled"
  /\ settled.status = "fulfilled"
  /\ settled.value.metrics.tokens = Num(250)

\* C7: with an absent credential simulateAgent issues no upstream call at
\* any point of the invocation, and what it returns is the mock record of the
\* requested framework and task.
C7_NoUpstreamCall ==
  envKey \in AbsentKeys =>
    /\ upstreamCalls = 0
    /\ pc # "awaitUpstream"
    /\ ~HasAnswer
    /\ HasReply => reply.output = <<"MOCK", RouteFramework[args.frameworkId], args.task>>
                   /\ reply.tokens = Num(250)

\* C7 witness: a key that contains the word placeholder; simulateAgent has
\* returned without any upstream call.
C7_Witness ==
  /\ envKey = KeyHasPlaceholder
  /\ pc = "replied"
  /\ upstreamCalls = 0
  /\ reply.tokens = Num(250)

\* C8: with a valid key, an upstream answer of status 401 or 429 ends in the
\* mock record, never in an error record.
C8_AuthQuotaFallsBack ==
  (HasAnswer /\ upstreamRes.net = "ok" /\ upstreamRes.status \in {401, 429}
     /\ pc \in {"replied", "settled"}) =>
    /\ IsMockPath(reply)
    /\ reply.steps # <<>>
    /\ pc = "settled" => settled.status = "fulfilled" /\ IsMockPathValue(settled.value)

\* C8 witness: the upstream answered 429 and the request has resolved.
C8_Witness ==
  /\ pc = "settled"
  /\ upstreamRes = HttpError(429, FALSE)
  /\ ~KeyAbsent(envKey)
  /\ settled.status = "fulfilled"

\* C9 as claimed: with a valid key, an upstream answer of status 500 whose
\* body does not carry the fallback signature ends in a record with tokens,
\* cost, quality, coverage and safety 0, no steps and an error message.
C9_ErrorRecordOn500 ==
  (HasAnswer /\ upstreamRes.net = "ok" /\ upstreamRes.status = 500 /\ ~upstreamRes.sig
     /\ pc \in {"replied", "settled"}) =>
    /\ reply.tokens = Num(0)
    /\ reply.cost = Num(0)
    /\ reply.quality = Num(0)
    /\ reply.coverage = Num(0)
    /\ reply.safety = Num(0)
    /\ reply.steps = <<>>
    /\ Has(reply, "error")

\* C10: with a valid key, an upstream call that fails at the network level,
\* or a 2xx answer whose structured result cannot be parsed, ends in the mock
\* record.
C10_NetworkOrMalformedFallsBack ==
  (HasAnswer /\ pc \in {"replied", "settled"}
     /\ \/ upstreamRes.net = "fail"
        \/ upstreamRes.net = "ok" /\ ResOk(upstreamRes.status) /\ upstreamRes.body \in BadBodies) =>
    /\ IsMockPath(reply)
    /\ reply.output = <<"MOCK", RouteFramework[args.frameworkId], args.task>>
    /\ Len(reply.steps) = 4

\* C10 witness: the upstream answered 200 with a message content that is no
\* JSON, and simulateAgent has returned.
C10_Witness ==
  /\ pc = "replied"
  /\ upstreamRes = BadBody("badcontent")
  /\ reply.tokens = Num(250)

\* the record simulateAgent returned was built from the upstream's result
IsLivePath(rec) == rec.output = <<"LIVE", "output", "logs">>

\* C11 as claimed: a 2xx answer with a parsed result but without parseable
\* token usage (usage missing, or no numeric total token count) never ends
\* in a live-path record; the adapter treats it as a live-path failure.
C11_NoUsageIsFailure ==
  (HasAnswer /\ HasReply
     /\ upstreamRes.net = "ok" /\ ResOk(upstreamRes.status)
     /\ upstreamRes.body = "object"
     /\ (upstreamRes.usage = "missing" \/ ~IsNumber(upstreamRes.total))) =>
    /\ ~IsLivePath(reply)
    /\ IsMockPath(reply)

\* C12: on a live-path success whose upstream reported a numeric total, the
\* record's tokens is that total and its cost is tokens / 1000 times the
\* pricing-table rate of the requested model (here tokens times the rate in
\* 1e-4 $ per 1000 tokens, a cost in 1e-7 $), never the rate of the model
\* the upstream was asked to run; runAgent passes both on unchanged.
C12_CostAtTargetRate ==
  (HasAnswer /\ HasReply /\ IsLivePath(reply)
     /\ IsNumber(upstreamRes.total) /\ args.modelId \in DOMAIN priceTable) =>
    /\ reply.tokens = upstreamRes.total
    /\ reply.cost = Num(upstreamRes.total.v * priceTable[args.modelId])
    /\ pc = "settled" =>
         /\ settled.status = "fulfilled"
         /\ settled.value.metrics.tokens = upstreamRes.total
         /\ settled.value.metrics.cost = Num(upstreamRes.total.v * priceTable[args.modelId])

\* C12 witness: claude-37 was requested, the upstream reported 1234 tokens,
\* and the request resolved with cost 1234 * 0.0035 / 1000.
C12_Witness ==
  /\ pc = "settled"
  /\ args.modelId = "claude-37"
  /\ HasAnswer
  /\ upstreamRes.total = Num(1234)
  /\ IsLivePath(reply)
  /\ settled.status = "fulfilled"
  /\ settled.value.metrics.cost = Num(43190)

(***************************************************************************)
(* Properties of aggregateHighlights (AggSpec).                            *)
(***************************************************************************)
\* the positions of the records without error flag
ValidIndexes == {i \in DOMAIN runs : ~Has(runs[i], "error")}

\* C13: when runs holds no valid record (it is empty, or every record has
\* the error flag), highlights is the object without fields: it has no
\* fastest, cheapest, highestQuality or averageTokens at all, so none that
\* is NaN or undefined.
C13_EmptyState ==
  ValidIndexes = {} => DOMAIN highlights = {}

\* C13 witness: three records, all of them error records, and the empty
\* highlights.
C13_Witness ==
  /\ Len(runs) = 3
  /\ \A i \in DOMAIN runs : Has(runs[i], "error")
  /\ DOMAIN highlights = {}

\* the record at some position of runs
IsRunAt(rec, i) == i \in DOMAIN runs /\ rec = runs[i]

\* C14: when runs holds at least one valid record, fastest, cheapest and
\* highestQuality are records of runs without error flag, also when runs
\* holds an error record, whose latency and cost are 0 and so below those
\* of every valid record.
C14_WinnersAreValid ==
  ValidIndexes # {} =>
    /\ {"fastest", "cheapest", "highestQuality"} \subseteq DOMAIN highlights
    /\ \A k \in {"fastest", "cheapest", "highestQuality"} :
         /\ DOMAIN highlights[k] # {"t", "v"}
         /\ ~Has(highlights[k], "error")
         /\ \E i \in ValidIndexes : IsRunAt(highlights[k], i)

\* C14 witness: an error record stands first, with latency 0 and cost 0
\* below those of the valid record that is fastest and cheapest.
C14_Witness ==
  /\ Len(runs) = 2
  /\ Has(runs[1], "error")
  /\ runs[1].metrics.latency = Num(0)
  /\ runs[1].metrics.cost = Num(0)
  /\ ~Has(runs[2], "error")
  /\ runs[2].metrics.latency.v > 0
  /\ runs[2].metrics.cost.v > 0
  /\ highlights.fastest = runs[2]
  /\ highlights.cheapest = runs[2]

\* position i holds a valid record whose metric k is the smallest (largest,
\* when smallest is FALSE) among the valid records, and no earlier valid
\* record has the same value
IsFirstExtreme(i, k, smallest) ==
  /\ i \in ValidIndexes
  /\ \A j \in ValidIndexes :
       /\ IF smallest THEN runs[j].metrics[k].v >= runs[i].metrics[k].v
          ELSE runs[j].metrics[k].v <= runs[i].metrics[k].v
       /\ runs[j].metrics[k].v = runs[i].metrics[k].v => j >= i

\* C15: with at least one valid record, fastest is the valid record of the
\* smallest latency, cheapest the one of the smallest cost, highestQuality
\* the one of the largest quality score; among equals, the one that comes
\* first in runs.
C15_FirstExtremeWins ==
  ValidIndexes # {} =>
    /\ \E i \in DOMAIN runs :
         IsFirstExtreme(i, "latency", TRUE) /\ highlights.fastest = runs[i]
    /\ \E i \in DOMAIN runs :
         IsFirstExtreme(i, "cost", TRUE) /\ highlights.cheapest = runs[i]
    /\ \E i \in DOMAIN runs :
         IsFirstExtreme(i, "quality", FALSE) /\ highlights.highestQuality = runs[i]

\* C15 witness: the first and the third record tie on latency, cost and
\* quality and beat the second on each; the first one is reported.
C15_Witness ==
  /\ Len(runs) = 3
  /\ ValidIndexes = {1, 2, 3}
  /\ runs[1].metrics = runs[3].metrics
  /\ runs[1] # runs[3]
  /\ runs[2].metrics.latency.v > runs[1].metrics.latency.v
  /\ runs[2].metrics.cost.v > runs[1].metrics.cost.v
  /\ runs[2].metrics.quality.v < runs[1].metrics.quality.v
  /\ highlights.fastest = runs[1]
  /\ highlights.cheapest = runs[1]
  /\ highlights.highestQuality = runs[1]

\* the sum of the tokens of the records at the positions in indexes
RECURSIVE TokensAt(_)
TokensAt(indexes) ==
  IF indexes = {} THEN 0
  ELSE LET i == CHOOSE j \in indexes : TRUE
       IN  runs[i].metrics.tokens.v + TokensAt(indexes \ {i})

\* C16: with at least one valid record, averageTokens is the mean of tokens
\* over the valid records only (error records count neither in the sum nor
\* in the divisor), rounded to the nearest integer, a half going up as
\* Math.round does: for n valid records of token sum s it is the integer a
\* with -n < 2 * (a * n - s) <= n.
C16_AverageOverValid ==
  ValidIndexes # {} =>
    LET n == Cardinality(ValidIndexes)
        sum == TokensAt(ValidIndexes)
        a == highlights.averageTokens
    IN  /\ IsNumber(a)
        /\ 2 * (a.v * n - sum) <= n
        /\ 2 * (a.v * n - sum) > 0 - n

\* C16 witness: an error record and two valid records of 250 and 1235
\* tokens: the mean over the valid records is 742.5 and averageTokens 743
\* (over all three records it would be 495).
C16_Witness ==
  /\ Len(runs) = 3
  /\ Has(runs[1], "error")
  /\ ValidIndexes = {2, 3}
  /\ TokensAt(ValidIndexes) = 1485
  /\ highlights.averageTokens = Num(743)

\* C17 as claimed: an invocation of simulateAgent that is waiting, for the
\* upstream or for the mock, eventually returns a record, also when the
\* upstream never answers.
C17_EventuallyReturns ==
  (pc \in {"awaitUpstream", "mockSleep"}) ~> (pc \in {"replied", "settled"})

\* a JavaScript value that is a number within lo..hi
InRange(x, lo, hi) == IsNumber(x) /\ x.v >= lo /\ x.v <= hi

\* C18 as claimed: every record simulateAgent returns, whatever the upstream
\* reported, has tokens >= 0, cost >= 0 and quality, coverage and safety
\* within 0..100.
C18_MetricsInRange ==
  HasReply =>
    /\ IsNumber(reply.tokens) /\ reply.tokens.v >= 0
    /\ IsNumber(reply.cost) /\ reply.cost.v >= 0
    /\ InRange(reply.quality, 0, 100)
    /\ InRange(reply.coverage, 0, 100)
    /\ InRange(reply.safety, 0, 100)

C20_DefaultsOnlyWhenOmitted ==
  (HasAnswer /\ HasReply /\ IsLivePath(reply)) =>
    /\ reply.safety = Num(95)
    /\ reply.quality = IF upstreamRes.quality = Undefined THEN Num(85) ELSE upstreamRes.quality
    /\ reply.coverage = IF upstreamRes.coverage = Undefined THEN Num(90) ELSE upstreamRes.coverage

NewestCombos ==
  FlatMapCombos(Picked(frameworks, selectedFrameworks), Picked(models, selectedModels))

\* C22 as claimed: last batch wins.  Once every batch that was started has
\* settled and published, runs holds the records of the newest batch: one
\* per combination of the current selection, and each resolved record is
\* the answer to the current task, in whatever order the batches settled.
C22_LastBatchWins ==
  (mounted /\ batches = <<>>) =>
    /\ Len(runs) = Len(NewestCombos)
    /\ \A i \in DOMAIN runs :
         /\ i \in DOMAIN NewestCombos
         /\ runs[i].framework = NewestCombos[i].fw
         /\ runs[i].model = NewestCombos[i].m
         /\ ~Has(runs[i], "error") =>
              runs[i].output = <<"MOCK", RouteFramework[runs[i].framework], task>>

NoDuplicate(s) == \A i, j \in DOMAIN s : s[i] = s[j] => i = j

\* C24: whatever toggles were made, selectedFrameworks and selectedModels
\* hold no identifier twice; toggling an identifier twice in a row gives a
\* selection with the same members as before, again without duplicate; and
\* a batch has one combination per selected framework and selected model,
\* none of them twice.
C24_SelectionsAreSets ==
  /\ NoDuplicate(selectedFrameworks)
  /\ NoDuplicate(selectedModels)
  /\ \A id \in Range(frameworks) :
       LET twice == Toggle(Toggle(selectedFrameworks, id), id)
       IN  Range(twice) = Range(selectedFrameworks) /\ NoDuplicate(twice)
  /\ \A id \in Range(models) :
       LET twice == Toggle(Toggle(selectedModels, id), id)
       IN  Range(twice) = Range(selectedModels) /\ NoDuplicate(twice)
  /\ \A b \in DOMAIN batches :
       /\ NoDuplicate(batches[b].combos)
       /\ Len(batches[b].combos) = Len(batches[b].frameworkIds) * Len(batches[b].modelIds)

\* C24 witness: a framework was unticked and ticked again: the selection has
\* its members back, in another order, and the batch in flight has one
\* combination for each pair.
C24_Witness ==
  /\ selectedFrameworks # frameworks
  /\ Range(selectedFrameworks) = Range(frameworks)
  /\ Len(selectedFrameworks) = Len(frameworks)
  /\ starts = 3
  /\ \E b \in DOMAIN batches :
       /\ batches[b].frameworkIds = selectedFrameworks
       /\ Len(batches[b].combos) = Len(frameworks) * Len(selectedModels)

\* rejections that carry no message: no reason, a reason without message,
\* an empty message
RejectionsWithoutMessage ==
  {[status |-> "rejected"],
   [status |-> "rejected", reason |-> [name |-> "AbortError"]],
   [status |-> "rejected", reason |-> [message |-> <<>>]]}

\* C25: a record built from a rejected call carries a non-empty error (the
\* rejection's message, 'Failed' when there is none), so aggregateHighlights
\* does not take it for a valid record: it is none of the winners and does
\* not count in averageTokens.
C25_RejectionsCarryError ==
  /\ \A calls \in [1..Len(runs) -> AggCalls] :
       runs = AggRuns(calls) =>
         \A i \in DOMAIN runs :
           ~ResOk(calls[i].tr.status) =>
             /\ Has(runs[i], "error")
             /\ runs[i].error = <<"Provider error: ", calls[i].tr.status>>
             /\ runs[i].error # <<>>
             /\ runs[i] \notin Range(ValidRuns(runs))
             /\ DOMAIN highlights # {} =>
                  /\ runs[i] \notin {highlights.fastest, highlights.cheapest,
                                     highlights.highestQuality}
                  /\ highlights.averageTokens =
                       MathRound(TokensAt(ValidIndexes), Cardinality(ValidIndexes))
  /\ \A res \in RejectionsWithoutMessage, i \in DOMAIN AggCombos :
       /\ ErrorRun(AggCombos[i], res).error = <<"Failed">>
       /\ ValidRuns(<<ErrorRun(AggCombos[i], res)>>) = <<>>
       /\ DOMAIN aggregateHighlights(<<ErrorRun(AggCombos[i], res)>>) = {}

\* C25 witness: the call of the second combination was rejected with
\* 'Provider error: 502'; its record has all metrics 0, and the fastest and
\* cheapest records are taken among the other two.
C25_Witness ==
  /\ Len(runs) = 3
  /\ ValidIndexes = {1, 3}
  /\ runs[2].error = <<"Provider error: ", 502>>
  /\ runs[2].metrics.cost = Num(0)
  /\ highlights.fastest \in {runs[1], runs[3]}
  /\ highlights.cheapest \in {runs[1], runs[3]}
  /\ highlights.cheapest.metrics.cost.v > 0

====
